---- MODULE Spec2Model ----
(***************************************************************************)
(* formatf: runtime printf-style formatting over byte strings.             *)
(*                                                                         *)
(* One pass of format_to is modelled: the tokenizer of parser.rs           *)
(* (do_visit), the specification parser of high.rs (try_parse) and the     *)
(* formatting engine of format.rs (Formatter), writing to a sink.          *)
(*                                                                         *)
(* Conventions.  A byte is a one-character string.  Indices into the       *)
(* template are 0-based as in the source; s[a..b] of the source is         *)
(* Slice(s, a, b).  An i128 value is held as a sign and a magnitude in     *)
(* base-10000 limbs, most significant first, because the integers of the   *)
(* checker are 32 bits wide.  A Rust panic (index out of bounds,           *)
(* subtraction underflow) is the field or variable "panicked".             *)
(***************************************************************************)
EXTENDS Integers, Sequences, FiniteSets, TLC

(***************************************************************************)
(* Bounds of the model.                                                    *)
(***************************************************************************)
MaxLen == 4
MaxSegs == 2
MaxArgs == 2
MaxPuts == 3
MaxFlags == 2
MaxParseFlags == 4
MaxPrecLen == 3
MaxArgPieces == 3

(***************************************************************************)
(* Bytes and slices.                                                       *)
(***************************************************************************)
NUL == "NUL"
OOB == "OOB"
DigitChars == <<"0", "1", "2", "3", "4", "5", "6", "7", "8", "9">>
Digits == {DigitChars[k] : k \in 1..10}

is_ascii_digit(c) == c \in Digits
DigitChar(d) == DigitChars[d + 1]
DigitVal(c) == CHOOSE d \in 0..9 : DigitChars[d + 1] = c

\* s[a..b]; the source panics unless a <= b <= len
SliceOk(s, a, b) == 0 <= a /\ a <= b /\ b <= Len(s)
Slice(s, a, b) == SubSeq(s, a + 1, b)
\* s[i]; the source panics unless i < len
InBounds(s, i) == 0 <= i /\ i < Len(s)
Index(s, i) == IF 0 <= i /\ i < Len(s) THEN s[i + 1] ELSE OOB

\* mutation: '0' is not taken for a flag
is_flag_nozero(c) == c \in {"#", "+", "-", " ", "'", "I"}

is_flag(c) == c \in {"#", "0", "+", "-", " ", "'", "I"}

\* mutation: the end-of-input byte passes for a conversion specifier
is_conversion_specifier_nul(c) ==
    c \in {"d", "i", "o", "u", "x", "X", "e", "E", "f", "F", "g", "G",
           "a", "A", "c", "s", "C", "S", "p", "n", "m", NUL}

is_conversion_specifier(c) ==
    c \in {"d", "i", "o", "u", "x", "X", "e", "E", "f", "F", "g", "G",
           "a", "A", "c", "s", "C", "S", "p", "n", "m"}

is_length_modifier(c) == c \in {"h", "l", "q", "L", "j", "z", "Z", "t"}

(***************************************************************************)
(* i128 values: sign and magnitude, base-10000 limbs.                      *)
(***************************************************************************)
Big(neg, mag) == [neg |-> neg, mag |-> mag]

MagLt(m1, m2) ==
    \/ Len(m1) < Len(m2)
    \/ /\ Len(m1) = Len(m2)
       /\ \E k \in 1..Len(m1) :
            /\ m1[k] < m2[k]
            /\ \A j \in 1..(k - 1) : m1[j] = m2[j]

\* a < b on i128
BigLt(a, b) ==
    IF a.neg /\ ~b.neg THEN TRUE
    ELSE IF ~a.neg /\ b.neg THEN FALSE
    ELSE IF a.neg THEN MagLt(b.mag, a.mag)
    ELSE MagLt(a.mag, b.mag)

I8_MIN == Big(TRUE, <<128>>)
I8_MAX == Big(FALSE, <<127>>)
I16_MIN == Big(TRUE, <<3, 2768>>)
I16_MAX == Big(FALSE, <<3, 2767>>)
I32_MIN == Big(TRUE, <<21, 4748, 3648>>)
I32_MAX == Big(FALSE, <<21, 4748, 3647>>)
I64_MIN == Big(TRUE, <<922, 3372, 368, 5477, 5808>>)
I64_MAX == Big(FALSE, <<922, 3372, 368, 5477, 5807>>)
I128_MIN == Big(TRUE, <<170, 1411, 8346, 469, 2317, 3168, 7303, 7158, 8410, 5728>>)
I128_MAX == Big(FALSE, <<170, 1411, 8346, 469, 2317, 3168, 7303, 7158, 8410, 5727>>)
\* isize on a 64-bit target
ISIZE_MIN == I64_MIN
ISIZE_MAX == I64_MAX

RECURSIVE DecDigits(_)
DecDigits(n) ==
    IF n < 10 THEN <<DigitChar(n)>>
    ELSE DecDigits(n \div 10) \o <<DigitChar(n % 10)>>

\* one lower limb: exactly four digits
LimbDigits(n) ==
    <<DigitChar(n \div 1000), DigitChar((n \div 100) % 10),
      DigitChar((n \div 10) % 10), DigitChar(n % 10)>>

RECURSIVE LowerLimbs(_, _)
LowerLimbs(mag, k) ==
    IF k > Len(mag) THEN <<>>
    ELSE LimbDigits(mag[k]) \o LowerLimbs(mag, k + 1)

\* itoa::Buffer::format(x): minimal decimal text, '-' only when negative
Itoa(x) ==
    (IF x.neg THEN <<"-">> ELSE <<>>) \o DecDigits(x.mag[1]) \o LowerLimbs(x.mag, 2)

(***************************************************************************)
(* high.rs: the specification parser.                                      *)
(***************************************************************************)
Ok(v) == [ok |-> TRUE, val |-> v]
Err(e) == [ok |-> FALSE, err |-> e]

MissingSpecifier == [tag |-> "MissingSpecifier"]
UnknownSpecifier == [tag |-> "UnknownSpecifier"]
UnknownFlag(ch) == [tag |-> "UnknownFlag", ch |-> ch]
DuplicateFlag(ch) == [tag |-> "DuplicateFlag", ch |-> ch]
InvalidPrec(inner) == [tag |-> "InvalidPrec", inner |-> inner]
InvalidWidth(inner) == [tag |-> "InvalidWidth", inner |-> inner]
UnknownLenModifier == [tag |-> "UnknownLenModifier"]

ConvKind_from_bytes(b) ==
    IF b = <<"d">> \/ b = <<"i">> THEN "SignDecInt"
    ELSE IF b = <<"s">> THEN "String"
    ELSE "NoKind"

LenModifier_from_bytes(b) ==
    IF b = <<"l">> THEN Ok("Long")
    ELSE IF b = <<"l", "l">> THEN Ok("Longer")
    ELSE IF b = <<"j">> THEN Ok("Longest")
    ELSE IF b = <<"h">> THEN Ok("Short")
    ELSE IF b = <<"h", "h">> THEN Ok("Shorter")
    ELSE IF b = <<"L">> THEN Ok("LongDouble")
    ELSE IF b = <<"z">> \/ b = <<"Z">> THEN Ok("Size")
    ELSE IF b = <<"t">> THEN Ok("PtrDiff")
    ELSE IF b = <<>> THEN Ok("None")
    ELSE Err(UnknownLenModifier)

ConvFlags_default ==
    [alt |-> FALSE, pad_zero |-> FALSE, adj_left |-> FALSE, pos_space |-> FALSE,
     force_sign |-> FALSE, comma_groups |-> FALSE, alt_digits |-> FALSE]

FlagField(ch) ==
    CASE ch = "#" -> "alt"
      [] ch = "0" -> "pad_zero"
      [] ch = "-" -> "adj_left"
      [] ch = " " -> "pos_space"
      [] ch = "+" -> "force_sign"
      [] ch = "'" -> "comma_groups"
      [] ch = "I" -> "alt_digits"
      [] OTHER -> "unknown"

\* mutation: a flag met again is set again, with no error
RECURSIVE ConvFlags_scan_collapse(_, _, _)
ConvFlags_scan_collapse(b, k, flags) ==
    IF k > Len(b) THEN Ok(flags)
    ELSE LET ch == b[k]
             field == FlagField(ch)
         IN  IF field = "unknown" THEN Err(UnknownFlag(ch))
             ELSE ConvFlags_scan_collapse(b, k + 1, [flags EXCEPT ![field] = TRUE])

RECURSIVE ConvFlags_scan(_, _, _)
ConvFlags_scan(b, k, flags) ==
    IF k > Len(b) THEN Ok(flags)
    ELSE LET ch == b[k]
             field == FlagField(ch)
         IN  IF field = "unknown" THEN Err(UnknownFlag(ch))
             ELSE IF flags[field] THEN Err(DuplicateFlag(ch))
             ELSE ConvFlags_scan(b, k + 1, [flags EXCEPT ![field] = TRUE])

ConvFlags_from_bytes(b) == ConvFlags_scan(b, 1, ConvFlags_default)

\* mutation: thousands-grouping is let through
ConvFlags_is_supported_groups(flags) == ~flags.alt_digits

ConvFlags_is_supported(flags) == ~flags.alt_digits /\ ~flags.comma_groups

\* usize::MAX = 18446744073709551615 as decimal digits
USIZE_MAX_DIGITS ==
    <<1, 8, 4, 4, 6, 7, 4, 4, 0, 7, 3, 7, 0, 9, 5, 5, 1, 6, 1, 5>>

RECURSIVE StripZeros(_)
StripZeros(ds) ==
    IF ds # <<>> /\ ds[1] = 0 THEN StripZeros(Tail(ds)) ELSE ds

DigitsGt(d1, d2) ==
    \/ Len(d1) > Len(d2)
    \/ /\ Len(d1) = Len(d2)
       /\ \E k \in 1..Len(d1) :
            /\ d1[k] > d2[k]
            /\ \A j \in 1..(k - 1) : d1[j] = d2[j]

RECURSIVE DigitsValue(_)
DigitsValue(ds) ==
    IF ds = <<>> THEN 0
    ELSE DigitsValue(SubSeq(ds, 1, Len(ds) - 1)) * 10 + ds[Len(ds)]

\* a byte outside ASCII: 0xFF, which no UTF-8 text holds
XFF == "\\xff"

\* core::str::from_utf8 on the bytes of the model: all are ASCII but XFF
from_utf8(b) ==
    IF \E k \in 1..Len(b) : b[k] = XFF THEN Err("Utf8Error") ELSE Ok(b)

\* the digit loop of from_str, left to right from position k with the digits
\* read so far in acc: a byte that is not a digit stops it with InvalidDigit,
\* a digit that takes the value above usize::MAX with PosOverflow
RECURSIVE ParseDigits(_, _, _)
ParseDigits(body, k, acc) ==
    IF k > Len(body) THEN Ok(DigitsValue(acc))
    ELSE IF ~is_ascii_digit(body[k]) THEN Err("InvalidDigit")
    ELSE LET next == StripZeros(Append(acc, DigitVal(body[k])))
         IN  IF DigitsGt(next, USIZE_MAX_DIGITS) THEN Err("PosOverflow")
             ELSE ParseDigits(body, k + 1, next)

\* <usize as FromStr>::from_str on UTF-8 text
ParseUsize(b) ==
    IF b = <<>> THEN Err("Empty")
    ELSE LET body == IF b[1] = "+" THEN Tail(b) ELSE b
         IN  IF body = <<>> THEN Err("InvalidDigit")
             ELSE ParseDigits(body, 1, <<>>)

NoPrec == [some |-> FALSE]
SomePrec(p) == [some |-> TRUE, p |-> p]

ConversionSpecification(fl, fw, pr, le, sp) ==
    [flags |-> fl, field_width |-> fw, precision |-> pr, length |-> le, specifier |-> sp]

\* mutation: the length modifier is looked at before the flags
try_parse_lenfirst(spec) ==
    LET kind == ConvKind_from_bytes(spec.specifier)
        flags == ConvFlags_from_bytes(spec.flags)
        len_mod == LenModifier_from_bytes(spec.length)
        width == ParseUsize(spec.field_width)
        prec == ParseUsize(Tail(spec.precision))
    IN  IF kind = "NoKind"
        THEN (IF spec.specifier = <<>> THEN Err(MissingSpecifier) ELSE Err(UnknownSpecifier))
        ELSE IF ~len_mod.ok THEN len_mod
        ELSE IF ~flags.ok THEN flags
        ELSE IF spec.field_width # <<>> /\ ~from_utf8(spec.field_width).ok
        THEN Err(InvalidWidth("None"))
        ELSE IF spec.field_width # <<>> /\ ~width.ok THEN Err(InvalidWidth(width.err))
        ELSE IF spec.precision # <<>> /\ spec.precision[1] # "." THEN Err(InvalidPrec("None"))
        ELSE IF spec.precision # <<>> /\ ~from_utf8(Tail(spec.precision)).ok
        THEN Err(InvalidPrec("None"))
        ELSE IF spec.precision # <<>> /\ ~prec.ok THEN Err(InvalidPrec(prec.err))
        ELSE Ok([conv_kind |-> kind,
                 len_modifier |-> len_mod.val,
                 min_width |-> IF spec.field_width = <<>> THEN 0 ELSE width.val,
                 prec |-> IF spec.precision = <<>> THEN NoPrec ELSE SomePrec(prec.val),
                 flags |-> flags.val])

try_parse(spec) ==
    LET kind == ConvKind_from_bytes(spec.specifier)
        flags == ConvFlags_from_bytes(spec.flags)
        len_mod == LenModifier_from_bytes(spec.length)
        width == ParseUsize(spec.field_width)
        prec == ParseUsize(Tail(spec.precision))
    IN  IF kind = "NoKind"
        THEN (IF spec.specifier = <<>> THEN Err(MissingSpecifier) ELSE Err(UnknownSpecifier))
        ELSE IF ~flags.ok THEN flags
        ELSE IF ~len_mod.ok THEN len_mod
        ELSE IF spec.field_width # <<>> /\ ~from_utf8(spec.field_width).ok
        THEN Err(InvalidWidth("None"))
        ELSE IF spec.field_width # <<>> /\ ~width.ok THEN Err(InvalidWidth(width.err))
        ELSE IF spec.precision # <<>> /\ spec.precision[1] # "." THEN Err(InvalidPrec("None"))
        ELSE IF spec.precision # <<>> /\ ~from_utf8(Tail(spec.precision)).ok
        THEN Err(InvalidPrec("None"))
        ELSE IF spec.precision # <<>> /\ ~prec.ok THEN Err(InvalidPrec(prec.err))
        ELSE Ok([conv_kind |-> kind,
                 len_modifier |-> len_mod.val,
                 min_width |-> IF spec.field_width = <<>> THEN 0 ELSE width.val,
                 prec |-> IF spec.precision = <<>> THEN NoPrec ELSE SomePrec(prec.val),
                 flags |-> flags.val])

is_supported(hi_spec) == ConvFlags_is_supported(hi_spec.flags)

(***************************************************************************)
(* The pass: inputs, tokenizer state, formatter state.                     *)
(***************************************************************************)
VARIABLES
    segs,       \* the pieces the template was assembled from (never read by the pass)
    template,   \* s: the template bytes
    args,       \* the argument list
    sink,       \* behaviour of the caller's sink: which put fails, and with what error
    pc,         \* "loop", "scan", "done" or "panicked"
    i,          \* index of next char to look at
    state,      \* parser.rs State
    rs,         \* parser.rs RawSpec being scanned
    fmt,        \* format.rs Formatter: sink contents, error latch, argument cursor
    events,     \* visitor callbacks delivered so far, in order
    last,       \* the most recent specification event and what it did
    result      \* what format_to returned

vars == <<segs, template, args, sink, pc, i, state, rs, fmt, events, last, result>>

(***************************************************************************)
(* lib.rs: Value and the sink.                                             *)
(***************************************************************************)
IntValue(x) == [kind |-> "Int", x |-> x]
StringValue(b) == [kind |-> "String", b |-> b]

NeverFails == [failAt |-> 0, err |-> "none"]
FailsAt(k, e) == [failAt |-> k, err |-> e]

\* BinSink::put: the call number sink.failAt fails and writes nothing
put(f, data) ==
    LET c == f.calls + 1
    IN  IF c = sink.failAt
        THEN [f |-> [f EXCEPT !.calls = c], res |-> Err(sink.err)]
        ELSE [f |-> [f EXCEPT !.calls = c, !.out = @ \o data, !.chunks = Append(@, data)],
              res |-> Ok("unit")]

(***************************************************************************)
(* format.rs: Formatter.                                                   *)
(***************************************************************************)
NoError == [tag |-> "None"]
SinkError(e) == [tag |-> "Sink", e |-> e]
SpecError(e) == [tag |-> "Spec", parse |-> e]
ExcessArgs == [tag |-> "ExcessArgs"]
NotEnoughArguments == [tag |-> "NotEnoughArguments"]
Unsupported == [tag |-> "Unsupported"]
BadType == [tag |-> "BadType"]
Invalid == [tag |-> "Invalid"]
NumOverflow == [tag |-> "NumOverflow"]

Latch(f, e) == [f EXCEPT !.error = e]
Panic(f) == [f EXCEPT !.panicked = TRUE]

had_error(f) == f.error # NoError

call_handler(f, b) ==
    LET r == put(f, b)
    IN  IF r.res.ok THEN [f |-> r.f, ok |-> TRUE]
        ELSE [f |-> Latch(r.f, SinkError(r.res.err)), ok |-> FALSE]

\* mutation: the padding loop goes on after a failed put
RECURSIVE write_padding_nostop(_, _, _)
write_padding_nostop(f, c, cnt) ==
    IF cnt = 0 THEN [f |-> f, ok |-> TRUE]
    ELSE write_padding_nostop(call_handler(f, <<c>>).f, c, cnt - 1)

RECURSIVE write_padding(_, _, _)
write_padding(f, c, cnt) ==
    IF cnt = 0 THEN [f |-> f, ok |-> TRUE]
    ELSE LET r == call_handler(f, <<c>>)
         IN  IF ~r.ok THEN r ELSE write_padding(r.f, c, cnt - 1)

\* mutation: the padding is the whole width, whatever the data length
padding_size_full(data, spec) == spec.min_width

\* data.len() < spec.min_width guards the usize subtraction
padding_size(data, spec) ==
    IF Len(data) < spec.min_width THEN spec.min_width - Len(data) ELSE 0

\* mutation: data shorter than the precision is zero-extended to it
write_data_prec(f, data, spec) ==
    LET ext == IF spec.prec.some /\ Len(data) < spec.prec.p
               THEN [k \in 1..(spec.prec.p - Len(data)) |-> "0"] \o data
               ELSE data
        psize == padding_size(ext, spec)
        pad_char == IF spec.flags.pad_zero THEN "0" ELSE " "
        before == IF ~spec.flags.adj_left
                  THEN write_padding(f, pad_char, psize)
                  ELSE [f |-> f, ok |-> TRUE]
        body == call_handler(before.f, ext)
    IN  IF psize < 0 THEN Panic(f)
        ELSE IF ~before.ok THEN before.f
        ELSE IF ~body.ok THEN body.f
        ELSE IF spec.flags.adj_left THEN write_padding(body.f, pad_char, psize).f
        ELSE body.f

write_data(f, data, spec) ==
    LET psize == padding_size(data, spec)
        pad_char == IF spec.flags.pad_zero THEN "0" ELSE " "
        before == IF ~spec.flags.adj_left
                  THEN write_padding(f, pad_char, psize)
                  ELSE [f |-> f, ok |-> TRUE]
        body == call_handler(before.f, data)
    IN  IF psize < 0 THEN Panic(f)
        ELSE IF ~before.ok THEN before.f
        ELSE IF ~body.ok THEN body.f
        ELSE IF spec.flags.adj_left THEN write_padding(body.f, pad_char, psize).f
        ELSE body.f

\* mutation: l is taken for a 32-bit long
IntBounds_long32(len_modifier) ==
    CASE len_modifier = "Shorter" -> Ok(<<I8_MIN, I8_MAX>>)
      [] len_modifier = "Short" -> Ok(<<I16_MIN, I16_MAX>>)
      [] len_modifier \in {"None", "Long"} -> Ok(<<I32_MIN, I32_MAX>>)
      [] len_modifier = "Longer" -> Ok(<<I64_MIN, I64_MAX>>)
      [] len_modifier = "Longest" -> Ok(<<I128_MIN, I128_MAX>>)
      [] len_modifier = "Size" -> Ok(<<ISIZE_MIN, ISIZE_MAX>>)
      [] OTHER -> Err(Unsupported)

IntBounds(len_modifier) ==
    CASE len_modifier = "Shorter" -> Ok(<<I8_MIN, I8_MAX>>)
      [] len_modifier = "Short" -> Ok(<<I16_MIN, I16_MAX>>)
      [] len_modifier = "None" -> Ok(<<I32_MIN, I32_MAX>>)
      [] len_modifier \in {"Long", "Longer"} -> Ok(<<I64_MIN, I64_MAX>>)
      [] len_modifier = "Longest" -> Ok(<<I128_MIN, I128_MAX>>)
      [] len_modifier = "Size" -> Ok(<<ISIZE_MIN, ISIZE_MAX>>)
      [] OTHER -> Err(Unsupported)

\* mutation: the force-sign flag puts a '+' before a non-negative integer
format_int_forcesign(f, x, spec) ==
    IF spec.conv_kind = "String" THEN Latch(f, BadType)
    ELSE LET bounds == IntBounds(spec.len_modifier)
             sign == IF spec.flags.force_sign /\ ~x.neg THEN <<"+">> ELSE <<>>
         IN  IF ~bounds.ok THEN Latch(f, bounds.err)
             ELSE IF BigLt(x, bounds.val[1]) \/ BigLt(bounds.val[2], x)
             THEN Latch(f, NumOverflow)
             ELSE write_data(f, sign \o Itoa(x), spec)

format_int(f, x, spec) ==
    IF spec.conv_kind = "String" THEN Latch(f, BadType)
    ELSE LET bounds == IntBounds(spec.len_modifier)
         IN  IF ~bounds.ok THEN Latch(f, bounds.err)
             ELSE IF BigLt(x, bounds.val[1]) \/ BigLt(bounds.val[2], x)
             THEN Latch(f, NumOverflow)
             ELSE write_data(f, Itoa(x), spec)

\* mutation: the precision is not applied
write_part_whole(b, spec) == b

\* b[..min(b.len(), prec)]
write_part(b, spec) ==
    LET prec == IF spec.prec.some THEN spec.prec.p ELSE Len(b)
        m == IF Len(b) < prec THEN Len(b) ELSE prec
    IN  Slice(b, 0, m)

\* mutation: the flags are not checked against the string conversion
format_bytes_anyflags(f, b, spec) ==
    IF spec.conv_kind = "SignDecInt" THEN Latch(f, BadType)
    ELSE write_data(f, write_part(b, spec), spec)

format_bytes(f, b, spec) ==
    IF spec.conv_kind = "SignDecInt" THEN Latch(f, BadType)
    ELSE IF \/ spec.flags.alt
            \/ spec.flags.pad_zero
            \/ spec.flags.comma_groups
            \/ spec.flags.alt_digits
    THEN Latch(f, Invalid)
    ELSE write_data(f, write_part(b, spec), spec)

\* mutation: every conversion reads the first argument
format_first(f, spec) ==
    IF f.next_arg = Len(args) THEN Latch(f, NotEnoughArguments)
    ELSE LET arg == args[1]
             g == [f EXCEPT !.next_arg = @ + 1]
         IN  IF ~InBounds(args, f.next_arg) THEN Panic(f)
             ELSE IF arg.kind = "Int" THEN format_int(g, arg.x, spec)
             ELSE format_bytes(g, arg.b, spec)

format(f, spec) ==
    IF f.next_arg = Len(args) THEN Latch(f, NotEnoughArguments)
    ELSE LET arg == args[f.next_arg + 1]
             g == [f EXCEPT !.next_arg = @ + 1]
         IN  IF ~InBounds(args, f.next_arg) THEN Panic(f)
             ELSE IF arg.kind = "Int" THEN format_int(g, arg.x, spec)
             ELSE format_bytes(g, arg.b, spec)

\* mutation: the literal callback does not look at the error latch
visit_bytes_unguarded(f, b) ==
    LET r == put(f, b)
    IN  IF r.res.ok THEN r.f ELSE Latch(r.f, SinkError(r.res.err))

visit_bytes(f, b) ==
    IF had_error(f) THEN f
    ELSE LET r == put(f, b)
         IN  IF r.res.ok THEN r.f ELSE Latch(r.f, SinkError(r.res.err))

\* visit.rs default: forwards a literal '%'
visit_escaped_percent(f) == visit_bytes(f, <<"%">>)

\* mutation: a specification that does not parse is copied to the sink
\* before the error is latched
visit_specification_echo(f, spec) ==
    IF had_error(f) THEN f
    ELSE LET parsed == try_parse(spec)
             text == <<"%">> \o spec.flags \o spec.field_width \o spec.precision
                            \o spec.length \o spec.specifier
         IN  IF ~parsed.ok THEN Latch(put(f, text).f, SpecError(parsed.err))
             ELSE IF ~is_supported(parsed.val) THEN Latch(f, Unsupported)
             ELSE format(f, parsed.val)

visit_specification(f, spec) ==
    IF had_error(f) THEN f
    ELSE LET parsed == try_parse(spec)
         IN  IF ~parsed.ok THEN Latch(f, SpecError(parsed.err))
             ELSE IF ~is_supported(parsed.val) THEN Latch(f, Unsupported)
             ELSE format(f, parsed.val)

\* lib.rs format_to: the latched error, or Ok(())
format_to_result(f) == IF f.error # NoError THEN f.error ELSE [tag |-> "Ok"]

(***************************************************************************)
(* parser.rs: do_visit.                                                    *)
(***************************************************************************)
StateNone == [tag |-> "None"]
\* mutation: the literal run starts one byte late
StateString_late(j) == [tag |-> "String", j |-> j + 1]

StateString(j) == [tag |-> "String", j |-> j]
StatePercent == [tag |-> "Percent"]

RawSpecZero ==
    [flags |-> 0, field_width |-> 0, precision |-> 0, length |-> 0, conv_spec |-> 0, end |-> 0]

\* mutation: the inner loop reads the template without the end-of-input test
scan_byte_unchecked(s, k) == Index(s, k)

\* the byte the inner loop looks at: \0 stands for end of input
scan_byte(s, k) == IF k < Len(s) THEN Index(s, k) ELSE NUL

\* mutation: the end of the flags is recorded one byte late
scan_iter_late(spec, k, ch) ==
    IF spec.field_width = 0 /\ is_flag(ch) THEN [spec |-> spec, brk |-> FALSE]
    ELSE
    LET s1 == IF spec.field_width = 0 THEN [spec EXCEPT !.field_width = k + 1] ELSE spec
    IN  IF s1.precision = 0 /\ is_ascii_digit(ch) THEN [spec |-> s1, brk |-> FALSE]
    ELSE
    LET s2 == IF s1.precision = 0 THEN [s1 EXCEPT !.precision = k] ELSE s1
    IN  IF s2.length = 0 /\ (ch = "." \/ is_ascii_digit(ch)) THEN [spec |-> s2, brk |-> FALSE]
    ELSE
    LET s3 == IF s2.length = 0 THEN [s2 EXCEPT !.length = k] ELSE s2
    IN  IF s3.conv_spec = 0 /\ is_length_modifier(ch) THEN [spec |-> s3, brk |-> FALSE]
    ELSE
    LET s4 == IF s3.conv_spec = 0 THEN [s3 EXCEPT !.conv_spec = k] ELSE s3
    IN  IF s4.end = 0 /\ is_conversion_specifier(ch) THEN [spec |-> s4, brk |-> FALSE]
    ELSE IF s4.end = 0 THEN [spec |-> [s4 EXCEPT !.end = k], brk |-> TRUE]
    ELSE [spec |-> s4, brk |-> FALSE]

\* one iteration of the inner loop after ch is read: the cursor cascade.
\* A cursor that is still 0 is one that has not been set.
scan_iter(spec, k, ch) ==
    IF spec.field_width = 0 /\ is_flag(ch) THEN [spec |-> spec, brk |-> FALSE]
    ELSE
    LET s1 == IF spec.field_width = 0 THEN [spec EXCEPT !.field_width = k] ELSE spec
    IN  IF s1.precision = 0 /\ is_ascii_digit(ch) THEN [spec |-> s1, brk |-> FALSE]
    ELSE
    LET s2 == IF s1.precision = 0 THEN [s1 EXCEPT !.precision = k] ELSE s1
    IN  IF s2.length = 0 /\ (ch = "." \/ is_ascii_digit(ch)) THEN [spec |-> s2, brk |-> FALSE]
    ELSE
    LET s3 == IF s2.length = 0 THEN [s2 EXCEPT !.length = k] ELSE s2
    IN  IF s3.conv_spec = 0 /\ is_length_modifier(ch) THEN [spec |-> s3, brk |-> FALSE]
    ELSE
    LET s4 == IF s3.conv_spec = 0 THEN [s3 EXCEPT !.conv_spec = k] ELSE s3
    IN  IF s4.end = 0 /\ is_conversion_specifier(ch) THEN [spec |-> s4, brk |-> FALSE]
    ELSE IF s4.end = 0 THEN [spec |-> [s4 EXCEPT !.end = k], brk |-> TRUE]
    ELSE [spec |-> s4, brk |-> FALSE]

RawSpecSlicesOk(s, spec) ==
    /\ SliceOk(s, spec.flags, spec.field_width)
    /\ SliceOk(s, spec.field_width, spec.precision)
    /\ SliceOk(s, spec.precision, spec.length)
    /\ SliceOk(s, spec.length, spec.conv_spec)
    /\ SliceOk(s, spec.conv_spec, spec.end)

vis_spec(s, spec) ==
    ConversionSpecification(Slice(s, spec.flags, spec.field_width),
                            Slice(s, spec.field_width, spec.precision),
                            Slice(s, spec.precision, spec.length),
                            Slice(s, spec.length, spec.conv_spec),
                            Slice(s, spec.conv_spec, spec.end))

BytesEvent(b) == [kind |-> "Bytes", b |-> b]
PercentEvent == [kind |-> "Percent"]
SpecEvent(spec) == [kind |-> "Spec", spec |-> spec]

NoLast == [valid |-> FALSE]

on_percent == Index(template, i) = "%"

Crash ==
    /\ pc' = "panicked"
    /\ fmt' = Panic(fmt)
    /\ UNCHANGED <<i, state, rs, events, last, result>>

\* State::None arm
LoopNone ==
    /\ pc = "loop" /\ i < Len(template) /\ state = StateNone
    /\ state' = IF on_percent THEN StatePercent ELSE StateString(i)
    /\ i' = i + 1
    /\ UNCHANGED <<segs, template, args, sink, pc, rs, fmt, events, last, result>>

\* State::String(j) arm
LoopString ==
    /\ pc = "loop" /\ i < Len(template) /\ state.tag = "String"
    /\ UNCHANGED <<segs, template, args, sink>>
    /\ IF ~on_percent
       THEN /\ i' = i + 1
            /\ UNCHANGED <<pc, state, rs, fmt, events, last, result>>
       ELSE IF ~SliceOk(template, state.j, i) THEN Crash
       ELSE /\ fmt' = visit_bytes(fmt, Slice(template, state.j, i))
            /\ events' = Append(events, BytesEvent(Slice(template, state.j, i)))
            /\ state' = StatePercent
            /\ i' = i + 1
            /\ UNCHANGED <<pc, rs, last, result>>

\* State::Percent arm, on '%': escaped percent
EscapedPercent ==
    /\ pc = "loop" /\ i < Len(template) /\ state = StatePercent
    /\ on_percent
    /\ fmt' = visit_escaped_percent(fmt)
    /\ events' = Append(events, PercentEvent)
    /\ state' = StateNone
    /\ i' = i + 1
    /\ UNCHANGED <<segs, template, args, sink, pc, rs, last, result>>

\* State::Percent arm, other byte: start of the specification scan
SpecBegin ==
    /\ pc = "loop" /\ i < Len(template) /\ state = StatePercent
    /\ ~on_percent
    /\ UNCHANGED <<segs, template, args, sink>>
    /\ IF i - 1 < 0 THEN Crash
       ELSE /\ rs' = [RawSpecZero EXCEPT !.flags = i]
            /\ i' = i - 1
            /\ pc' = "scan"
            /\ UNCHANGED <<state, fmt, events, last, result>>

\* an iteration of the inner loop that ends in `continue`
SpecScan ==
    /\ pc = "scan"
    /\ LET k == i + 1
           ch == scan_byte(template, k)
           r == scan_iter(rs, k, ch)
       IN  /\ ch # OOB
           /\ ~r.brk
           /\ i' = k
           /\ rs' = r.spec
    /\ UNCHANGED <<segs, template, args, sink, pc, state, fmt, events, last, result>>

\* the iteration of the inner loop that ends in `break`, and the rest of the arm
SpecEnd ==
    /\ pc = "scan"
    /\ UNCHANGED <<segs, template, args, sink>>
    /\ LET k == i + 1
           ch == scan_byte(template, k)
           r == scan_iter(rs, k, ch)
           spec == vis_spec(template, r.spec)
           f == visit_specification(fmt, spec)
       IN  /\ ch = OOB \/ r.brk
           /\ IF ch = OOB \/ ~RawSpecSlicesOk(template, r.spec) THEN Crash
              ELSE /\ fmt' = f
                   /\ events' = Append(events, SpecEvent(spec))
                   /\ last' = [valid |-> TRUE, raw |-> r.spec, spec |-> spec,
                               parsed |-> try_parse(spec), pre |-> fmt, post |-> f]
                   /\ state' = IF k = Len(template) THEN StateNone ELSE StateString(k)
                   /\ i' = k + 1
                   /\ rs' = RawSpecZero
                   /\ pc' = IF f.panicked THEN "panicked" ELSE "loop"
                   /\ UNCHANGED result

\* the loop is over: flush the pending literal; format_to returns
Finish ==
    /\ pc = "loop" /\ i >= Len(template)
    /\ UNCHANGED <<segs, template, args, sink>>
    /\ IF state.tag = "String" /\ ~SliceOk(template, state.j, Len(template)) THEN Crash
       ELSE LET tail == Slice(template, state.j, Len(template))
                f == IF state.tag = "String" THEN visit_bytes(fmt, tail) ELSE fmt
            IN  /\ fmt' = f
                /\ events' = IF state.tag = "String"
                             THEN Append(events, BytesEvent(tail)) ELSE events
                /\ result' = format_to_result(f)
                /\ pc' = "done"
                /\ UNCHANGED <<i, state, rs, last>>

Next == LoopNone \/ LoopString \/ EscapedPercent \/ SpecBegin \/ SpecScan \/ SpecEnd \/ Finish

(***************************************************************************)
(* Inputs of a pass.                                                       *)
(***************************************************************************)
SeqsUpTo(S, n) == UNION {[1..k -> S] : k \in 0..n}

RECURSIVE Flatten(_)
Flatten(ps) == IF ps = <<>> THEN <<>> ELSE Head(ps).bytes \o Flatten(Tail(ps))

Raw(c) == [kind |-> "raw", bytes |-> <<c>>]
Lit(b) == [kind |-> "lit", bytes |-> b]
Pct == [kind |-> "pct", bytes |-> <<"%", "%">>]
Conv(b) == [kind |-> "conv", bytes |-> <<"%">> \o b]

\* arbitrary bytes: one byte of every class the tokenizer tells apart
Alphabet == {"%", "d", "0", "3", ".", "-", "h", "b"}
RawPieces == {Raw(c) : c \in Alphabet}

\* literal runs, the %% pair and well-formed conversions (those of the tests of
\* lib.rs, and a precision with and without a width)
Pieces ==
    { Lit(<<"H", "e">>), Lit(<<"=">>), Pct,
      Conv(<<"s">>), Conv(<<"d">>),
      Conv(<<"-", "3", "s">>), Conv(<<"0", "3", "d">>), Conv(<<"3", "d">>),
      Conv(<<".", "1", "s">>), Conv(<<"3", ".", "1", "s">>) }

Int42 == IntValue(Big(FALSE, <<42>>))
IntMinus7 == IntValue(Big(TRUE, <<7>>))
Values == {Int42, StringValue(<<"h", "i">>), StringValue(<<"l", "o", "o", "p">>)}
RawArgLists == {<<IntValue(I32_MIN)>>, <<IntMinus7>>}

Max(a, b) == IF a > b THEN a ELSE b
Min(a, b) == IF a < b THEN a ELSE b

ConvIdx == {k \in 1..Len(segs) : segs[k].kind = "conv"}
ConvCount == Cardinality(ConvIdx)

\* the conversion letter a piece ends with
PieceLetter(p) == p.bytes[Len(p.bytes)]
PieceKind(p) == IF PieceLetter(p) = "s" THEN "String" ELSE "Int"
IsPlainConv(p) == p = Conv(<<"s">>) \/ p = Conv(<<"d">>)

InI32(x) == ~BigLt(x, I32_MIN) /\ ~BigLt(I32_MAX, x)

\* the n-th conversion piece (in template order) is at position ConvPos(n)
ConvPos(n) == CHOOSE k \in ConvIdx : Cardinality({j \in ConvIdx : j <= k}) = n

\* every supplied argument has the kind of its conversion and fits 32 bits
ArgsMatch ==
    \A n \in 1..Min(Len(args), ConvCount) :
        /\ args[n].kind = PieceKind(segs[ConvPos(n)])
        /\ args[n].kind = "Int" => InI32(args[n].x)

SinkErrs == {"SliceTooSmall", "Custom"}
Sinks == {NeverFails} \cup {FailsAt(k, e) : k \in 1..MaxPuts, e \in SinkErrs}

FormatterInit ==
    [out |-> <<>>, chunks |-> <<>>, calls |-> 0, error |-> NoError,
     next_arg |-> 0, panicked |-> FALSE]

InitPass ==
    /\ template = Flatten(segs)
    /\ pc = "loop"
    /\ i = 0
    /\ state = StateNone
    /\ rs = RawSpecZero
    /\ fmt = FormatterInit
    /\ events = <<>>
    /\ last = NoLast
    /\ result = [tag |-> "Pending"]

InitRaw ==
    /\ segs \in SeqsUpTo(RawPieces, MaxLen)
    /\ args \in RawArgLists
    /\ sink = NeverFails

\* a failing sink is paired with arguments that fit the conversions
InitPieces ==
    /\ segs \in SeqsUpTo(Pieces, MaxSegs)
    /\ args \in SeqsUpTo(Values, MaxArgs)
    /\ sink \in Sinks
    /\ sink # NeverFails => (Len(args) = ConvCount /\ ArgsMatch)

Init == (InitRaw \/ InitPieces) /\ InitPass

Spec == Init /\ [][Next]_vars

(***************************************************************************)
(* Inputs of a pass over one conversion specification assembled from its   *)
(* five fields, after an optional literal run or %% pair.                  *)
(***************************************************************************)
FlagBytes == {"#", "0", "-", " ", "+", "'", "I"}
SpecifierBytes ==
    {"d", "i", "o", "u", "x", "X", "e", "E", "f", "F", "g", "G",
     "a", "A", "c", "s", "C", "S", "p", "n", "m"}
LenFields ==
    {<<>>, <<"h">>, <<"h", "h">>, <<"l">>, <<"l", "l">>, <<"j">>, <<"z">>, <<"Z">>,
     <<"L">>, <<"t">>, <<"q">>, <<"h", "l">>}
PrecFields == {<<>>} \cup {<<".">> \o t : t \in SeqsUpTo({".", "0", "2"}, 2)}

\* integers at and next to the ends of the 8, 16, 32, 64 and 128 bit ranges
BoundaryInts ==
    { Big(TRUE, <<129>>), Big(TRUE, <<128>>), Big(FALSE, <<127>>), Big(FALSE, <<128>>),
      Big(FALSE, <<200>>), Big(FALSE, <<0>>),
      Big(TRUE, <<3, 2769>>), Big(TRUE, <<3, 2768>>),
      Big(FALSE, <<3, 2767>>), Big(FALSE, <<3, 2768>>),
      Big(TRUE, <<21, 4748, 3649>>), Big(TRUE, <<21, 4748, 3648>>),
      Big(FALSE, <<21, 4748, 3647>>), Big(FALSE, <<21, 4748, 3648>>),
      Big(TRUE, <<922, 3372, 368, 5477, 5809>>), Big(TRUE, <<922, 3372, 368, 5477, 5808>>),
      Big(FALSE, <<922, 3372, 368, 5477, 5807>>), Big(FALSE, <<922, 3372, 368, 5477, 5808>>),
      Big(TRUE, <<170, 1411, 8346, 469, 2317, 3168, 7303, 7158, 8410, 5728>>),
      Big(FALSE, <<170, 1411, 8346, 469, 2317, 3168, 7303, 7158, 8410, 5727>>) }

Field(fl, w, p, l, sp) == Conv(fl \o w \o p \o l \o sp)
ConvInput(piece, as) == [piece |-> piece, args |-> as]

StringHi == StringValue(<<"h", "i">>)

\* every combination of up to MaxFlags flag bytes, with and without a width
ConvFlagsFamily ==
    { ConvInput(Field(fl, w, <<>>, <<>>, <<sp>>), as) :
        fl \in SeqsUpTo(FlagBytes, MaxFlags), w \in {<<>>, <<"3">>}, sp \in {"d", "s"},
        as \in {<<>>, <<Int42>>, <<StringHi>>} }

\* every length modifier on an integer conversion, with the boundary integers
ConvLenFamily ==
    { ConvInput(Field(<<>>, <<>>, <<>>, l, <<sp>>), <<IntValue(x)>>) :
        l \in LenFields, sp \in {"d", "i"}, x \in BoundaryInts }

\* every specifier byte the tokenizer accepts, and none
ConvSpecifierFamily ==
    { ConvInput(Field(fl, <<>>, <<>>, <<>>, sp), as) :
        fl \in {<<>>, <<"'">>}, sp \in {<<c>> : c \in SpecifierBytes} \cup {<<>>},
        as \in {<<>>, <<Int42>>, <<StringHi>>} }

\* precision fields, with and without a width
ConvPrecFamily ==
    { ConvInput(Field(<<>>, w, p, <<>>, <<sp>>), as) :
        w \in {<<>>, <<"3">>}, p \in PrecFields, sp \in {"d", "s"},
        as \in {<<Int42>>, <<StringHi>>} }

\* the sign flags among the flags of an integer conversion, on integers of
\* either sign and of one to five digits
SignInts == {Big(FALSE, <<0>>), Big(TRUE, <<7>>), Big(FALSE, <<42>>), Big(FALSE, <<1, 2345>>)}
ConvSignFamily ==
    { ConvInput(Field(fl, w, <<>>, <<>>, <<"d">>), <<IntValue(x)>>) :
        fl \in SeqsUpTo({"+", " ", "-", "0"}, MaxFlags), w \in {<<>>, <<"3">>},
        x \in SignInts }

\* conversions that fail several checks at once
\* 99999999999999999999 is above usize::MAX
WidthTooLarge == [k \in 1..20 |-> "9"]
Int200 == IntValue(Big(FALSE, <<200>>))
ConvOrderFamily ==
    { ConvInput(Field(fl, w, p, l, sp), as) :
        fl \in {<<>>, <<"'">>, <<"+", "+">>, <<"0">>, <<"'", "'">>},
        w \in {<<>>, WidthTooLarge},
        p \in {<<>>, <<".", ".">>},
        l \in {<<>>, <<"q">>, <<"L">>, <<"h", "h">>},
        sp \in {<<"d">>, <<"s">>, <<"x">>, <<>>},
        as \in {<<>>, <<Int42>>, <<StringHi>>, <<Int200>>} }
    \cup
    \* a precision too large before its second '.', and one that is too large
    { ConvInput(Field(<<>>, w, <<".">> \o WidthTooLarge \o t, <<>>, sp), <<Int42>>) :
        w \in {<<>>, <<"3">>, WidthTooLarge}, t \in {<<>>, <<".">>},
        sp \in {<<"d">>, <<"s">>} }

\* fields the conversion kind has no use for: a precision on an integer
\* conversion, a length modifier on a string conversion
ConvUnusedFamily ==
    { ConvInput(Field(fl, w, p, <<>>, <<"d">>), <<IntValue(x)>>) :
        fl \in {<<>>, <<"0">>, <<"-">>}, w \in {<<>>, <<"3">>},
        p \in {<<>>, <<".", "0">>, <<".", "2">>, <<".", "5">>}, x \in SignInts }
    \cup
    { ConvInput(Field(fl, w, p, l, <<"s">>), <<StringHi>>) :
        fl \in {<<>>, <<"-">>}, w \in {<<>>, <<"3">>}, p \in {<<>>, <<".", "1">>},
        l \in LenFields }

ConvInputs ==
    ConvFlagsFamily \cup ConvLenFamily \cup ConvSpecifierFamily \cup ConvPrecFamily
    \cup ConvSignFamily \cup ConvOrderFamily \cup ConvUnusedFamily
\* what comes before the conversion: nothing, a literal, %%, or a string
\* conversion (which takes the first argument) and a literal
ConvLead == <<Conv(<<"s">>), Lit(<<"=">>)>>
Leads == {<<>>, <<Lit(<<"H", "e">>)>>, <<Pct>>, ConvLead}
LeadArgs(lead) == IF lead = ConvLead THEN <<StringValue(<<"l", "o", "o", "p">>)>> ELSE <<>>

InitConv ==
    /\ \E c \in ConvInputs, lead \in Leads :
          /\ segs = lead \o <<c.piece>>
          /\ args = LeadArgs(lead) \o c.args
    /\ sink = NeverFails
    /\ InitPass

SpecConv == InitConv /\ [][Next]_vars

(***************************************************************************)
(* Inputs of a pass over several conversions kept apart by literals: the   *)
(* argument cursor moves more than once.                                   *)
(***************************************************************************)
ArgPieces ==
    { Conv(<<"s">>), Conv(<<"d">>), Conv(<<"'", "d">>), Conv(<<"x">>), Lit(<<"=">>), Pct }
ArgValues == {Int42, StringHi, StringValue(<<"l", "o", "o", "p">>)}

InitArgs ==
    /\ segs \in SeqsUpTo(ArgPieces, MaxArgPieces)
    /\ args \in SeqsUpTo(ArgValues, MaxArgs)
    /\ sink = NeverFails
    /\ InitPass

SpecArgs == InitArgs /\ [][Next]_vars

(***************************************************************************)
(* high.rs is a public module: a caller hands a hand-made                  *)
(* ConversionSpecification to try_parse.  The specification is held in     *)
(* last.spec and the value returned in result.                             *)
(***************************************************************************)
TryParse ==
    /\ pc = "call"
    /\ result' = try_parse(last.spec)
    /\ pc' = "done"
    /\ UNCHANGED <<segs, template, args, sink, i, state, rs, fmt, events, last>>

\* fields no tokenizer would deliver are among the inputs
ParseFlagBytes == {"0", "-", "'", "x"}
ParsePrecBytes == {".", "0", "7", "+", "x", XFF}
\* 99999999999999999999 is above usize::MAX
PrecTooLarge == <<".">> \o [k \in 1..20 |-> "9"]

ParseFlagsFamily ==
    { ConversionSpecification(fl, <<>>, <<>>, <<>>, sp) :
        fl \in SeqsUpTo(ParseFlagBytes, MaxParseFlags) \cup SeqsUpTo(FlagBytes, 2),
        sp \in {<<"d">>, <<"s">>, <<"x">>, <<>>} }

ParsePrecFamily ==
    { ConversionSpecification(<<>>, w, p, <<>>, <<"s">>) :
        w \in {<<>>, <<"3">>},
        p \in SeqsUpTo(ParsePrecBytes, MaxPrecLen) \cup {PrecTooLarge} }

\* widths and precisions that are not UTF-8, that are too large, and that
\* are too large before their first byte that is not a digit
ParseNumberFamily ==
    { ConversionSpecification(<<>>, w, p, <<>>, sp) :
        w \in {<<>>, <<XFF>>, <<"3", XFF>>, <<"x">>, <<"+", "7">>,
               Tail(PrecTooLarge), Tail(PrecTooLarge) \o <<"x">>},
        p \in {<<>>, <<XFF>>, <<".", XFF>>, PrecTooLarge \o <<".">>},
        sp \in {<<"d">>, <<"s">>} }

InitParse ==
    /\ \E sp \in ParseFlagsFamily \cup ParsePrecFamily \cup ParseNumberFamily :
          last = [valid |-> FALSE, spec |-> sp]
    /\ pc = "call"
    /\ segs = <<>> /\ template = <<>> /\ args = <<>> /\ sink = NeverFails
    /\ i = 0 /\ state = StateNone /\ rs = RawSpecZero
    /\ fmt = FormatterInit /\ events = <<>>
    /\ result = [tag |-> "Pending"]

SpecParse == InitParse /\ [][TryParse]_vars

TypeOK ==
    /\ pc \in {"loop", "scan", "done", "panicked", "call"}
    /\ i \in 0..(Len(template) + 1)
    /\ fmt.next_arg \in 0..Len(args)

(***************************************************************************)
(* Vocabulary of the properties.                                           *)
(***************************************************************************)
NoPercentIn(b) == \A k \in 1..Len(b) : b[k] # "%"

PctCount == Cardinality({k \in 1..Len(segs) : segs[k] = Pct})
PercentEvents == Cardinality({k \in 1..Len(events) : events[k] = PercentEvent})

\* what printf writes for pieces that are literals, %% pairs, %s and %d
RECURSIVE Rendered(_, _)
Rendered(ps, as) ==
    IF ps = <<>> THEN <<>>
    ELSE IF Head(ps).kind = "lit" THEN Head(ps).bytes \o Rendered(Tail(ps), as)
    ELSE IF Head(ps).kind = "pct" THEN <<"%">> \o Rendered(Tail(ps), as)
    ELSE (IF Head(as).kind = "String" THEN Head(as).b ELSE Itoa(Head(as).x))
         \o Rendered(Tail(ps), Tail(as))

\* the text t is the minimal decimal form of x
IsMinimalDecimal(t, x) ==
    LET body == IF x.neg THEN Tail(t) ELSE t
        n == Len(body)
        L == (n + 3) \div 4
        r == n - 4 * (L - 1)
        lo(m) == IF m = 1 THEN 1 ELSE r + 4 * (m - 2) + 1
        hi(m) == r + 4 * (m - 1)
        limb(m) == DigitsValue([k \in 1..(hi(m) - lo(m) + 1) |-> DigitVal(body[lo(m) + k - 1])])
    IN  /\ t # <<>>
        /\ x.neg => t[1] = "-"
        /\ n >= 1
        /\ \A k \in 1..n : is_ascii_digit(body[k])
        /\ n > 1 => body[1] # "0"
        /\ x.neg => body # <<"0">>
        /\ [m \in 1..L |-> limb(m)] = x.mag

\* the most recent specification event: descriptor, argument, bytes it wrote
LastRan == last.valid /\ ~had_error(last.pre)
LastOk == LastRan /\ ~had_error(last.post)
LastDesc == last.parsed.val
LastArg == args[last.pre.next_arg + 1]
LastEmitted == SubSeq(last.post.out, Len(last.pre.out) + 1, Len(last.post.out))
LastData ==
    IF LastArg.kind = "Int" THEN Itoa(LastArg.x)
    ELSE IF LastDesc.prec.some
    THEN SubSeq(LastArg.b, 1, Min(Len(LastArg.b), LastDesc.prec.p))
    ELSE LastArg.b
Fill(c, n) == [k \in 1..n |-> c]

(***************************************************************************)
(* C1.  A template of literal runs (possibly empty) interleaved with %s  *)
(* and %d, with exactly one argument of the matching kind per             *)
(* specification (integers within 32 bits) and a sink that never fails,    *)
(* succeeds and writes the literal runs and the rendered arguments in      *)
(* template order.                                                         *)
(***************************************************************************)
C1_Pre ==
    /\ sink = NeverFails
    /\ \A k \in 1..Len(segs) : segs[k].kind = "lit" \/ IsPlainConv(segs[k])
    /\ Len(args) = ConvCount
    /\ ArgsMatch

C1_PlainTemplatesRender ==
    (pc = "done" /\ C1_Pre) =>
        /\ result = [tag |-> "Ok"]
        /\ fmt.out = Rendered(segs, args)

(***************************************************************************)
(* C2.  A template without any '%' byte (the empty template included),   *)
(* with any argument list and a sink that never fails: format_to returns   *)
(* success and the sink holds exactly the template bytes.                  *)
(***************************************************************************)
C2_IdentityNoPercent ==
    (pc = "done" /\ sink = NeverFails /\ NoPercentIn(template)) =>
        /\ result = [tag |-> "Ok"]
        /\ fmt.out = template

C2_Witness ==
    /\ pc = "done" /\ sink = NeverFails /\ NoPercentIn(template)
    /\ Len(template) >= 3 /\ args # <<>>
    /\ fmt.out = template

(***************************************************************************)
(* C3.  Every %% pair renders as one '%' byte whatever precedes or       *)
(* follows it (start of template, literal run, another pair, a conversion  *)
(* specification); the tokenizer delivers one escaped-percent event per    *)
(* pair and scans on after it as after literal text.                       *)
(***************************************************************************)
C3_Pre ==
    /\ sink = NeverFails
    /\ PctCount >= 1
    /\ \A k \in 1..Len(segs) : segs[k].kind \in {"lit", "pct"} \/ IsPlainConv(segs[k])
    /\ \A k \in 1..(Len(segs) - 1) : ~(segs[k].kind = "conv" /\ segs[k + 1].kind = "conv")
    /\ Len(args) = ConvCount
    /\ ArgsMatch

C3_EscapedPercentAnywhere ==
    (pc = "done" /\ C3_Pre) =>
        /\ PercentEvents = PctCount
        /\ fmt.out = Rendered(segs, args)

(***************************************************************************)
(* C4.  A template whose conversion specifications are all well-formed   *)
(* and supported, with fewer arguments than specifications (each supplied  *)
(* one matching its conversion) and a sink that never fails, returns       *)
(* NotEnoughArguments.                                                     *)
(***************************************************************************)
C4_Pre ==
    /\ sink = NeverFails
    /\ \A k \in 1..Len(segs) : segs[k].kind \in {"lit", "pct", "conv"}
    /\ Len(args) < ConvCount
    /\ ArgsMatch

C4_Starvation ==
    (pc = "done" /\ C4_Pre) => result = NotEnoughArguments

(***************************************************************************)
(* C5.  When the whole template was processed without error and at least *)
(* one argument was not consumed, format_to reports ExcessArgs, all output *)
(* having been written.                                                    *)
(***************************************************************************)
C5_ExcessArgsReported ==
    (pc = "done" /\ ~had_error(fmt) /\ fmt.next_arg < Len(args)) =>
        result = ExcessArgs

(***************************************************************************)
(* C6.  No step of a pass panics, for any template bytes and arguments:  *)
(* template reads and slices are in bounds, the scan index is decremented  *)
(* only at an index >= 1, the argument list is read below its length, and  *)
(* the padding subtraction never underflows.                               *)
(***************************************************************************)
C6_NoPanic ==
    /\ pc # "panicked"
    /\ ~fmt.panicked
    /\ pc = "scan" => (0 <= i /\ i < Len(template) /\ 1 <= rs.flags)
    /\ fmt.next_arg <= Len(args)

\* a specification cut short by the end of the template was scanned and delivered
C6_Witness ==
    /\ pc = "done"
    /\ last.valid
    /\ last.spec.specifier = <<>>
    /\ last.spec.precision # <<>>
    /\ events[Len(events)].kind = "Spec"

(***************************************************************************)
(* C7.  The error latch is absorbing: once an error is latched, no later *)
(* callback calls put, moves the argument cursor or replaces the error,    *)
(* and format_to returns that error.                                       *)
(***************************************************************************)
C7_LatchAbsorbing ==
    [][had_error(fmt) =>
         /\ fmt' = fmt
         /\ pc' = "done" => result' = fmt.error]_vars

\* an error was latched by a specification and a literal was delivered after it
C7_Witness ==
    /\ pc = "done"
    /\ last.valid /\ ~had_error(last.pre) /\ had_error(last.post)
    /\ events[Len(events)].kind = "Bytes"
    /\ result = last.post.error

(***************************************************************************)
(* C8.  When a put fails (on a literal, an escaped percent, a padding    *)
(* byte or the data chunk) the pass latches Sink(e) with the sink's own    *)
(* error e, and put is not called again in the pass.                       *)
(***************************************************************************)
C8_SinkFailureStops ==
    (sink.failAt > 0 /\ fmt.calls >= sink.failAt) =>
        /\ fmt.error = SinkError(sink.err)
        /\ fmt.calls = sink.failAt
        /\ Len(fmt.chunks) = sink.failAt - 1

\* the failing put came inside a conversion, after a put of that conversion succeeded
C8_Witness ==
    /\ pc = "done"
    /\ LastRan
    /\ last.post.error = SinkError(sink.err)
    /\ last.pre.calls + 1 < sink.failAt
    /\ fmt.calls = sink.failAt

(***************************************************************************)
(* C9.  A successful conversion emits exactly p padding bytes and the    *)
(* data, p = max(0, min_width - len(data)); padding first unless the       *)
(* left-adjust flag is set; the pad byte is '0' with the zero-pad flag and *)
(* a space otherwise; the integer data is the minimal decimal text.        *)
(***************************************************************************)
C9_Padding ==
    LastOk =>
        LET p == Max(0, LastDesc.min_width - Len(LastData))
            c == IF LastDesc.flags.pad_zero THEN "0" ELSE " "
        IN  /\ LastEmitted = IF LastDesc.flags.adj_left
                             THEN LastData \o Fill(c, p)
                             ELSE Fill(c, p) \o LastData
            /\ Len(LastEmitted) = Max(LastDesc.min_width, Len(LastData))
            /\ LastArg.kind = "Int" => IsMinimalDecimal(LastData, LastArg.x)

C9_Witness ==
    /\ LastOk
    /\ LastDesc.flags.pad_zero
    /\ LastArg.kind = "Int"
    /\ LastDesc.min_width > Len(LastData)
    /\ Len(LastEmitted) = LastDesc.min_width

(***************************************************************************)
(* C10.  A string conversion with precision p on the byte string b emits *)
(* the first min(len(b), p) bytes of b (all of b without a precision), and *)
(* the width padding is computed from that truncated length.               *)
(***************************************************************************)
C10_PrecisionTruncates ==
    (LastOk /\ LastArg.kind = "String") =>
        LET b == LastArg.b
            m == IF LastDesc.prec.some THEN Min(Len(b), LastDesc.prec.p) ELSE Len(b)
            p == Max(0, LastDesc.min_width - m)
            e == LastEmitted
            data == IF LastDesc.flags.adj_left THEN SubSeq(e, 1, m)
                    ELSE SubSeq(e, Len(e) - m + 1, Len(e))
        IN  /\ Len(e) = m + p
            /\ data = SubSeq(b, 1, m)
            /\ \A k \in 1..m : data[k] = b[k]

C10_Witness ==
    /\ LastOk /\ LastArg.kind = "String"
    /\ LastDesc.prec.some
    /\ LastDesc.prec.p < Len(LastArg.b)
    /\ LastDesc.min_width > LastDesc.prec.p
    /\ Len(LastEmitted) = LastDesc.min_width

(***************************************************************************)
(* C13.  Every literal event is a non-empty maximal run of template      *)
(* bytes without '%': no byte of the chunk is '%', and the chunk is        *)
(* bounded on each side by the template start or end, a '%' or the end of  *)
(* a specification, so that no two literal events are adjacent.            *)
(***************************************************************************)
C13_LiteralRuns ==
    \A k \in 1..Len(events) :
        events[k].kind = "Bytes" =>
            /\ events[k].b # <<>>
            /\ NoPercentIn(events[k].b)
            /\ k > 1 => events[k - 1].kind # "Bytes"

(***************************************************************************)
(* C14.  The five boundary cursors are non-decreasing (flags start <=    *)
(* field_width start <= precision start <= length start <= specifier       *)
(* start <= end), during the scan for the cursors already recorded and at  *)
(* the specification event for all of them; the five slices are            *)
(* contiguous and in order, and their concatenation is the template from   *)
(* the byte right after the '%' up to the end index.                       *)
(***************************************************************************)
Cursors(c) == <<c.flags, c.field_width, c.precision, c.length, c.conv_spec, c.end>>

C14_CursorsMonotone ==
    /\ pc = "scan" =>
          LET c == Cursors(rs)
          IN  /\ 1 <= c[1] /\ c[1] <= i + 1
              /\ Index(template, c[1] - 1) = "%"
              /\ \A n \in 2..6 :
                    c[n] # 0 => /\ c[n - 1] # 0
                                /\ c[n - 1] <= c[n]
                                /\ c[n] <= i
    /\ last.valid =>
          LET c == Cursors(last.raw)
              sp == last.spec
          IN  /\ 1 <= c[1] /\ c[6] <= Len(template)
              /\ Index(template, c[1] - 1) = "%"
              /\ \A n \in 2..6 : c[n - 1] <= c[n]
              /\ sp.flags = Slice(template, c[1], c[2])
              /\ sp.field_width = Slice(template, c[2], c[3])
              /\ sp.precision = Slice(template, c[3], c[4])
              /\ sp.length = Slice(template, c[4], c[5])
              /\ sp.specifier = Slice(template, c[5], c[6])
              /\ sp.flags \o sp.field_width \o sp.precision \o sp.length \o sp.specifier
                   = Slice(template, c[1], c[6])
              /\ Len(sp.flags) + Len(sp.field_width) + Len(sp.precision)
                   + Len(sp.length) + Len(sp.specifier) = c[6] - c[1]

\* a specification with a width, a precision and a specifier was delivered
C14_Witness ==
    /\ pc = "done"
    /\ last.valid
    /\ last.spec.field_width # <<>>
    /\ last.spec.precision # <<>>
    /\ last.spec.specifier # <<>>
    /\ last.raw.field_width < last.raw.precision
    /\ last.raw.precision < last.raw.length
    /\ last.raw.conv_spec < last.raw.end

(***************************************************************************)
(* C15.  The scan terminates for every finite template.  The scan index  *)
(* grows by one on every iteration of the inner loop and is larger at the  *)
(* end of every iteration of the outer loop than at its start; every byte  *)
(* decision moves the index under decision forward by one, from 0 to at    *)
(* most len(template)+1, so there are at most len(template)+1 of them; the *)
(* inner loop exits at the implicit null byte at the latest; every step    *)
(* lowers a measure bounded by the template length, also on a truncated    *)
(* specification and after an error has been latched.                      *)
(***************************************************************************)
\* index of the byte the next step decides on
DecisionIndex == IF pc = "scan" THEN i + 1 ELSE i

ScanMeasure ==
    IF pc \in {"done", "panicked"} THEN 0
    ELSE 2 * (Len(template) + 2 - DecisionIndex) + (IF pc = "loop" THEN 1 ELSE 0)

C15_ScanTerminates ==
    [][/\ ScanMeasure' < ScanMeasure
       /\ ScanMeasure' >= 0
       /\ DecisionIndex' = IF pc' = "done" \/ (pc = "loop" /\ pc' = "scan")
                           THEN DecisionIndex ELSE DecisionIndex + 1
       /\ DecisionIndex' <= Len(template) + 1
       /\ (pc = "loop" /\ pc' = "loop") => i' = i + 1
       /\ (pc = "scan" /\ pc' = "scan") => i' = i + 1
       /\ (pc = "scan" /\ pc' = "loop") => (i' = i + 2 /\ i' > rs.flags)
       /\ pc' = "scan" => i' + 1 <= Len(template)
       /\ (pc = "scan" /\ i + 1 = Len(template)) => pc' # "scan"
       /\ pc' = "done" => (i' >= Len(template) /\ i' <= Len(template) + 1)
       /\ pc' # "panicked"]_vars

\* the pass returned after an error was latched and a later specification was
\* cut short by the end of the template
C15_Witness ==
    /\ pc = "done"
    /\ last.valid
    /\ had_error(last.pre)
    /\ last.spec.specifier = <<>>
    /\ last.raw.end = Len(template)
    /\ i = Len(template) + 1

(***************************************************************************)
(* C17.  In a template whose last '%' begins a specification and is      *)
(* followed up to the end of input by flag, width, precision or            *)
(* length-modifier bytes only (at least one), the text before it being     *)
(* literal bytes optionally ended by one %d with its argument, the         *)
(* tokenizer delivers a raw specification with an empty specifier for it   *)
(* and format_to returns Spec(MissingSpecifier) without consuming an       *)
(* argument for it.                                                        *)
(***************************************************************************)
FieldByte(c) == is_flag(c) \/ is_ascii_digit(c) \/ c = "." \/ is_length_modifier(c)

\* p is the position (from 1) of a '%' followed by a truncated specification
TruncatedAt(p) ==
    /\ template[p] = "%"
    /\ p < Len(template)
    /\ \A k \in (p + 1)..Len(template) : FieldByte(template[k])
    /\ LET X == SubSeq(template, 1, p - 1)
       IN  \/ NoPercentIn(X)
           \/ /\ Len(X) >= 2
              /\ NoPercentIn(SubSeq(X, 1, Len(X) - 2))
              /\ SubSeq(X, Len(X) - 1, Len(X)) = <<"%", "d">>
              /\ Len(args) >= 1 /\ args[1].kind = "Int" /\ InI32(args[1].x)

C17_TruncatedSpecification ==
    (pc = "done" /\ sink = NeverFails) =>
        \A p \in 1..Len(template) :
            TruncatedAt(p) =>
                /\ last.valid
                /\ last.raw.flags = p
                /\ last.spec.specifier = <<>>
                /\ \E k \in 1..Len(events) : events[k] = SpecEvent(last.spec)
                /\ ~had_error(last.pre)
                /\ result = SpecError(MissingSpecifier)
                /\ fmt.next_arg = last.pre.next_arg

(***************************************************************************)
(* The most recent specification event: its text and what became of it.    *)
(***************************************************************************)
HasFlag(c) == \E k \in 1..Len(last.spec.flags) : last.spec.flags[k] = c
LastHasArg == last.pre.next_arg < Len(args)
\* a string conversion that parsed, reached with no error latched, whose
\* argument is a byte string
LastStringOnBytes ==
    /\ LastRan
    /\ last.parsed.ok
    /\ last.spec.specifier = <<"s">>
    /\ LastHasArg /\ LastArg.kind = "String"

(***************************************************************************)
(* C11 as stated.  A string conversion applied to a byte-string value    *)
(* whose flags include any of alternate (#), zero-pad (0),                 *)
(* thousands-grouping (apostrophe) or alternate-digits (I) latches Invalid *)
(* and emits no byte for that conversion.                                  *)
(***************************************************************************)
C11_StringFlagsInvalid ==
    (LastStringOnBytes /\ (HasFlag("#") \/ HasFlag("0") \/ HasFlag("'") \/ HasFlag("I"))) =>
        /\ last.post.error = Invalid
        /\ LastEmitted = <<>>

(***************************************************************************)
(* C11 as amended.  A string conversion applied to a byte-string value   *)
(* whose flags include alternate or zero-pad and neither                   *)
(* thousands-grouping nor alternate-digits latches Invalid and emits no    *)
(* byte; when the flags include thousands-grouping or alternate-digits the *)
(* conversion latches Unsupported instead, and emits no byte either.       *)
(***************************************************************************)
C11_StringFlagsInvalidAmended ==
    LastStringOnBytes =>
        /\ ((HasFlag("#") \/ HasFlag("0")) /\ ~HasFlag("'") /\ ~HasFlag("I")) =>
              /\ last.post.error = Invalid
              /\ LastEmitted = <<>>
              /\ last.post.calls = last.pre.calls
        /\ (HasFlag("'") \/ HasFlag("I")) =>
              /\ last.post.error = Unsupported
              /\ LastEmitted = <<>>
              /\ last.post.calls = last.pre.calls

\* %03s (or %#3s) met a byte string after some output had been written
C11_Witness ==
    /\ pc = "done"
    /\ LastStringOnBytes
    /\ HasFlag("0") \/ HasFlag("#")
    /\ last.spec.field_width # <<>>
    /\ last.pre.out # <<>>
    /\ result = Invalid
    /\ fmt.out = last.pre.out

(***************************************************************************)
(* Signed ranges, computed by doubling: 2^n as base-10000 limbs.           *)
(***************************************************************************)
RECURSIVE MulTwo(_, _)
MulTwo(mag, carry) ==
    IF mag = <<>> THEN (IF carry = 0 THEN <<>> ELSE <<carry>>)
    ELSE LET v == 2 * mag[Len(mag)] + carry
         IN  MulTwo(SubSeq(mag, 1, Len(mag) - 1), v \div 10000) \o <<v % 10000>>

\* mag doubled n times
RECURSIVE Doubled(_, _)
Doubled(mag, n) == IF n = 0 THEN mag ELSE Doubled(MulTwo(mag, 0), n - 1)

TwoPow7 == Doubled(<<1>>, 7)
TwoPow15 == Doubled(TwoPow7, 8)
TwoPow31 == Doubled(TwoPow15, 16)
TwoPow63 == Doubled(TwoPow31, 32)
TwoPow95 == Doubled(TwoPow63, 32)
TwoPow127 == Doubled(TwoPow95, 32)

\* -half <= x <= half - 1
InSignedRange(x, half) ==
    IF x.neg THEN ~MagLt(half, x.mag) ELSE MagLt(x.mag, half)

\* half the size of the range a length modifier selects; pointers are 64 bits wide
HalfRange(l) ==
    CASE l = <<"h", "h">> -> TwoPow7
      [] l = <<"h">> -> TwoPow15
      [] l = <<>> -> TwoPow31
      [] l \in {<<"l">>, <<"l", "l">>, <<"z">>, <<"Z">>} -> TwoPow63
      [] l = <<"j">> -> TwoPow127

\* an integer conversion that parsed and passed the support gate, reached with
\* no error latched, whose argument is an integer
LastIntOnInt ==
    /\ LastRan
    /\ last.parsed.ok
    /\ last.spec.specifier \in {<<"d">>, <<"i">>}
    /\ ~HasFlag("'") /\ ~HasFlag("I")
    /\ LastHasArg /\ LastArg.kind = "Int"

(***************************************************************************)
(* C12.  For an integer conversion (d or i) applied to an integer x the  *)
(* length modifier selects an inclusive signed range: hh 8 bits, h 16,     *)
(* none 32, l and ll 64, j 128, z and Z pointer-sized.  x is rendered iff  *)
(* it lies in the range, both ends included; outside it NumOverflow is     *)
(* latched and nothing is written; L and t latch Unsupported for every x.  *)
(***************************************************************************)
C12_IntRange ==
    LastIntOnInt =>
        LET l == last.spec.length
            x == LastArg.x
        IN  IF l \in {<<"L">>, <<"t">>}
            THEN /\ last.post.error = Unsupported
                 /\ LastEmitted = <<>>
                 /\ last.post.calls = last.pre.calls
            ELSE IF InSignedRange(x, HalfRange(l))
            THEN /\ ~had_error(last.post)
                 /\ Len(LastEmitted) >= Len(Itoa(x))
                 /\ (last.spec.flags = <<>> /\ last.spec.field_width = <<>>) =>
                        IsMinimalDecimal(LastEmitted, x)
            ELSE /\ last.post.error = NumOverflow
                 /\ LastEmitted = <<>>
                 /\ last.post.calls = last.pre.calls

\* %lld rendered the least 64-bit integer
C12_Witness ==
    /\ pc = "done"
    /\ LastIntOnInt
    /\ last.spec.length = <<"l", "l">>
    /\ LastArg.x = Big(TRUE, <<922, 3372, 368, 5477, 5808>>)
    /\ result = [tag |-> "Ok"]
    /\ Len(LastEmitted) = 20

\* %hhd refused 128 and %hd refused -32769
C12_WitnessOverflow ==
    /\ pc = "done"
    /\ LastIntOnInt
    /\ \/ last.spec.length = <<"h", "h">> /\ LastArg.x = Big(FALSE, <<128>>)
       \/ last.spec.length = <<"h">> /\ LastArg.x = Big(TRUE, <<3, 2769>>)
    /\ result = NumOverflow

(***************************************************************************)
(* A direct call of try_parse: the specification handed in, the value      *)
(* returned.                                                               *)
(***************************************************************************)
Returned == pc = "done" /\ ~last.valid
Given == last.spec
ByteSet(b) == {b[k] : k \in 1..Len(b)}

\* the byte each flag of ConvFlags stands for
FlagByteOf ==
    [alt |-> "#", pad_zero |-> "0", adj_left |-> "-", pos_space |-> " ",
     force_sign |-> "+", comma_groups |-> "'", alt_digits |-> "I"]

\* positions of a flags field at which the scan cannot go on: a byte outside
\* the alphabet, or a byte seen before
FlagFaults(b) ==
    {k \in 1..Len(b) : b[k] \notin FlagBytes \/ \E j \in 1..(k - 1) : b[j] = b[k]}

FirstOf(S) == CHOOSE k \in S : \A j \in S : k <= j

(***************************************************************************)
(* C19.  Parsing a flags field sets exactly the booleans of the flag     *)
(* bytes that occur in it and leaves the others false; a field in which a  *)
(* flag byte occurs twice gives DuplicateFlag with the first byte to       *)
(* repeat in left-to-right order, never a collapsed flag set; a byte       *)
(* outside the alphabet gives UnknownFlag with that byte; of a repeat and  *)
(* a foreign byte the one met first is reported.                           *)
(***************************************************************************)
C19_FlagsParse ==
    (/\ Returned
     /\ Given.specifier \in {<<"d">>, <<"s">>}
     /\ Given.field_width = <<>> /\ Given.precision = <<>> /\ Given.length = <<>>) =>
        LET b == Given.flags
            faults == FlagFaults(b)
        IN  IF faults = {}
            THEN /\ result.ok
                 /\ DOMAIN result.val.flags = DOMAIN FlagByteOf
                 /\ \A f \in DOMAIN FlagByteOf :
                        result.val.flags[f] = (FlagByteOf[f] \in ByteSet(b))
            ELSE LET ch == b[FirstOf(faults)]
                 IN  result = Err(IF ch \in FlagBytes THEN DuplicateFlag(ch)
                                  ELSE UnknownFlag(ch))

\* "-00-": two bytes repeat, '0' repeats first
C19_Witness ==
    /\ Returned
    /\ Given.specifier = <<"d">>
    /\ Given.flags = <<"-", "0", "0", "-">>
    /\ result = Err(DuplicateFlag("0"))

\* "-x-": the foreign byte is met before the repeat
C19_WitnessUnknown ==
    /\ Returned
    /\ Given.specifier = <<"s">>
    /\ Given.flags = <<"-", "x", "-">>
    /\ result = Err(UnknownFlag("x"))

(***************************************************************************)
(* C16.  The parser maps the precision field as follows: an empty field  *)
(* is no precision (None); '.' followed by digits d is the precision d; a  *)
(* field that is only '.' is valid and is the precision 0; any other       *)
(* content (not starting with '.', a second '.', a value out of range) is  *)
(* InvalidPrec.                                                            *)
(***************************************************************************)
AllDigits(b) == \A k \in 1..Len(b) : is_ascii_digit(b[k])
DigitSeq(b) == [k \in 1..Len(b) |-> DigitVal(b[k])]
FitsUsize(b) == ~DigitsGt(StripZeros(DigitSeq(b)), USIZE_MAX_DIGITS)

C16_PrecisionParse ==
    (/\ Returned
     /\ Given.specifier = <<"s">>
     /\ Given.flags = <<>> /\ Given.length = <<>>
     /\ Given.field_width \in {<<>>, <<"3">>}) =>
        LET p == Given.precision
        IN  IF p = <<>>
            THEN result.ok /\ result.val.prec = NoPrec
            ELSE IF p[1] = "." /\ AllDigits(Tail(p)) /\ FitsUsize(Tail(p))
            THEN result.ok /\ result.val.prec = SomePrec(DigitsValue(DigitSeq(Tail(p))))
            ELSE ~result.ok /\ result.err.tag = "InvalidPrec"

(***************************************************************************)
(* C18.  A conversion whose specifier is a printf specifier the engine   *)
(* does not implement (o u x X e E f F g G a A c C S p n m) is reported by *)
(* format_to as Unsupported, not in the class of specification parse       *)
(* errors.                                                                 *)
(***************************************************************************)
Unimplemented == SpecifierBytes \ {"d", "i", "s"}

C18_UnimplementedIsUnsupported ==
    (/\ pc = "done"
     /\ LastRan
     /\ \E c \in Unimplemented : last.spec.specifier = <<c>>
     /\ last.spec.flags = <<>>) =>
        /\ result = Unsupported
        /\ result.tag # "Spec"

(***************************************************************************)
(* C20.  A grammatically valid specification whose flags include         *)
(* thousands-grouping or alternate-digits is rejected with Unsupported,    *)
(* for integer and string conversions alike, before an argument is         *)
(* consumed and before a byte of the conversion is written; with neither   *)
(* flag the specification passes the support gate: it takes the next       *)
(* argument, or latches NotEnoughArguments when there is none.             *)
(***************************************************************************)
C20_SupportGate ==
    (LastRan /\ last.parsed.ok) =>
        IF HasFlag("'") \/ HasFlag("I")
        THEN /\ last.post.error = Unsupported
             /\ last.post.next_arg = last.pre.next_arg
             /\ last.post.calls = last.pre.calls
             /\ LastEmitted = <<>>
        ELSE IF LastHasArg
        THEN last.post.next_arg = last.pre.next_arg + 1
        ELSE last.post.error = NotEnoughArguments

\* %Is with a byte string at hand: Unsupported, the argument not taken
C20_Witness ==
    /\ pc = "done"
    /\ LastRan /\ last.parsed.ok
    /\ HasFlag("I")
    /\ last.spec.specifier = <<"s">>
    /\ LastHasArg /\ LastArg.kind = "String"
    /\ result = Unsupported
    /\ fmt.next_arg = 0

\* %'d with no argument: Unsupported, not NotEnoughArguments
C20_WitnessNoArg ==
    /\ pc = "done"
    /\ LastRan /\ last.parsed.ok
    /\ HasFlag("'")
    /\ last.spec.specifier = <<"d">>
    /\ ~LastHasArg
    /\ result = Unsupported


(***************************************************************************)
(* The specification of the most recent event with the '+' and ' ' bytes   *)
(* taken out of its flags.                                                 *)
(***************************************************************************)
NotSignFlag(c) == c # "+" /\ c # " "
WithoutSignFlags(spec) == [spec EXCEPT !.flags = SelectSeq(@, NotSignFlag)]
\* an integer conversion that parsed, reached with no error latched, whose
\* argument is an integer
LastIntConv ==
    /\ LastRan
    /\ last.parsed.ok
    /\ last.parsed.val.conv_kind = "SignDecInt"
    /\ LastHasArg /\ LastArg.kind = "Int"

(***************************************************************************)
(* C21.  The force-sign (+) and positive-space flags are accepted and    *)
(* have no effect on the output: an integer conversion whose flags hold    *)
(* either of them leaves the sink as the same conversion without them      *)
(* leaves it, and what it emits is padding and the minimal decimal text of *)
(* the integer, with a sign only when the integer is negative.             *)
(***************************************************************************)
C21_SignFlagsNoEffect ==
    (LastIntConv /\ (HasFlag("+") \/ HasFlag(" "))) =>
        LET plain == visit_specification(last.pre, WithoutSignFlags(last.spec))
            e == LastEmitted
            c == IF HasFlag("0") THEN "0" ELSE " "
        IN  /\ last.post.out = plain.out
            /\ last.post.chunks = plain.chunks
            /\ LastOk =>
                 \E m \in 1..Len(e) :
                    LET data == IF HasFlag("-") THEN SubSeq(e, 1, m)
                                ELSE SubSeq(e, Len(e) - m + 1, Len(e))
                        pad == IF HasFlag("-") THEN SubSeq(e, m + 1, Len(e))
                               ELSE SubSeq(e, 1, Len(e) - m)
                    IN  /\ IsMinimalDecimal(data, LastArg.x)
                        /\ pad = Fill(c, Len(e) - m)
                        /\ pad # <<>> => Len(e) = last.parsed.val.min_width

\* %+3d (or "% +3d") wrote a non-negative integer, padded, with no sign
C21_Witness ==
    /\ pc = "done"
    /\ LastIntConv /\ LastOk
    /\ HasFlag("+")
    /\ ~LastArg.x.neg
    /\ last.spec.field_width # <<>>
    /\ LastEmitted # <<>>
    /\ \A k \in 1..Len(LastEmitted) : LastEmitted[k] # "+"
    /\ result = [tag |-> "Ok"]

\* the same with a negative integer and the positive-space flag
C21_WitnessNegative ==
    /\ pc = "done"
    /\ LastIntConv /\ LastOk
    /\ HasFlag(" ")
    /\ LastArg.x.neg
    /\ LastEmitted[Len(LastEmitted) - 1] = "-"

(***************************************************************************)
(* Runs of bytes.  Indices are those of the tokenizer: the byte at index k *)
(* is s[k + 1].                                                            *)
(***************************************************************************)
\* where the longest run of bytes of the set S that starts at index from ends
RunEnd(s, from, S) ==
    CHOOSE k \in from..Len(s) :
        /\ \A j \in from..(k - 1) : s[j + 1] \in S
        /\ k = Len(s) \/ s[k + 1] \notin S
Accepts(s, k, S) == k < Len(s) /\ s[k + 1] \in S

FlagRun == {"#", "0", "+", "-", " ", "'", "I"}
DigitRun == {"0", "1", "2", "3", "4", "5", "6", "7", "8", "9"}
PrecisionRun == {"."} \cup DigitRun
LengthRun == {"h", "l", "q", "L", "j", "z", "Z", "t"}

(***************************************************************************)
(* C22.  In every specification event the first four fields are the      *)
(* successive maximal runs of their predicates starting right after the    *)
(* '%': flags the longest run of flag bytes, field_width the longest       *)
(* following run of digits, precision the longest following run of '.' or  *)
(* digits, length the longest following run of length-modifier bytes; a    *)
(* field is empty exactly when the byte at its start fails its predicate,  *)
(* and no field starts with a byte the field before it accepts.            *)
(***************************************************************************)
C22_MaximalRuns ==
    last.valid =>
        LET s == template
            r == last.raw
            sp == last.spec
        IN  /\ r.flags >= 1 /\ s[r.flags] = "%"
            /\ r.field_width = RunEnd(s, r.flags, FlagRun)
            /\ r.precision = RunEnd(s, r.field_width, DigitRun)
            /\ r.length = RunEnd(s, r.precision, PrecisionRun)
            /\ r.conv_spec = RunEnd(s, r.length, LengthRun)
            /\ sp.flags = SubSeq(s, r.flags + 1, r.field_width)
            /\ sp.field_width = SubSeq(s, r.field_width + 1, r.precision)
            /\ sp.precision = SubSeq(s, r.precision + 1, r.length)
            /\ sp.length = SubSeq(s, r.length + 1, r.conv_spec)
            /\ (sp.flags = <<>>) <=> ~Accepts(s, r.flags, FlagRun)
            /\ (sp.field_width = <<>>) <=> ~Accepts(s, r.field_width, DigitRun)
            /\ (sp.precision = <<>>) <=> ~Accepts(s, r.precision, PrecisionRun)
            /\ (sp.length = <<>>) <=> ~Accepts(s, r.length, LengthRun)
            /\ sp.field_width # <<>> => sp.field_width[1] \notin FlagRun
            /\ sp.precision # <<>> => sp.precision[1] \notin DigitRun
            /\ sp.length # <<>> => sp.length[1] \notin PrecisionRun

\* %03d: the leading 0 went to the flags and the 3 to the width
C22_Witness ==
    /\ pc = "done"
    /\ last.valid
    /\ last.spec.flags = <<"0">>
    /\ last.spec.field_width = <<"3">>
    /\ last.spec.specifier = <<"d">>

\* %.3h: a precision run and a length run, cut short by the end of the template
C22_WitnessPrecision ==
    /\ pc = "done"
    /\ last.valid
    /\ last.spec.flags = <<>> /\ last.spec.field_width = <<>>
    /\ Len(last.spec.precision) = 2
    /\ last.spec.length = <<"h">>

(***************************************************************************)
(* One step of the pass, seen from the argument cursor.                    *)
(***************************************************************************)
Delivered == Len(events') = Len(events) + 1
DeliveredKind == events'[Len(events')].kind
Advanced == fmt'.next_arg # fmt.next_arg
\* the specification event of this step passed parsing and the support gate
PassedGates ==
    /\ last'.parsed.ok
    /\ \A k \in 1..Len(last'.spec.flags) : last'.spec.flags[k] \notin {"'", "I"}
\* the bytes e are the value v padded: the data is v itself (a byte string
\* cut at the precision p, an integer in decimal), the rest is pad bytes
Renders(e, v, p) ==
    \E a \in 0..Len(e) : \E m \in 0..(Len(e) - a) :
        LET data == SubSeq(e, a + 1, a + m)
        IN  /\ v.kind = "Int" => IsMinimalDecimal(data, v.x)
            /\ v.kind = "String" =>
                  /\ data = SubSeq(v.b, 1, m)
                  /\ m = Len(v.b) \/ (p.some /\ m = p.p)
            /\ \A k \in (1..a) \cup ((a + m + 1)..Len(e)) : e[k] \in {" ", "0"}

(***************************************************************************)
(* C23.  In every state of a pass 0 <= next_arg <= len(args).  Literal   *)
(* and escaped-percent events leave next_arg unchanged; next_arg changes   *)
(* only by +1, and it does so exactly in a specification event that passed *)
(* parsing and the support gate while no error was latched and             *)
(* next_arg < len(args); the value that conversion uses is args[next_arg]  *)
(* as it was before the increment: its kind decides BadType and its bytes  *)
(* are what is emitted.                                                    *)
(***************************************************************************)
C23_ArgumentCursor ==
    /\ [](fmt.next_arg >= 0 /\ fmt.next_arg <= Len(args))
    /\ [][ /\ ~Delivered => ~Advanced
           /\ (Delivered /\ DeliveredKind \in {"Bytes", "Percent"}) => ~Advanced
           /\ Advanced => fmt'.next_arg = fmt.next_arg + 1
           /\ Advanced <=>
                 /\ Delivered /\ DeliveredKind = "Spec"
                 /\ PassedGates
                 /\ ~had_error(fmt)
                 /\ fmt.next_arg < Len(args)
           /\ Advanced =>
                 LET v == args[fmt.next_arg + 1]
                     e == SubSeq(fmt'.out, Len(fmt.out) + 1, Len(fmt'.out))
                     d == last'.parsed.val
                 IN  /\ fmt'.error = BadType <=>
                            ((v.kind = "Int") # (d.conv_kind = "SignDecInt"))
                     /\ ~had_error(fmt') => Renders(e, v, d.prec)
         ]_vars

\* the second argument was used by the second conversion that took one
C23_Witness ==
    /\ pc = "done"
    /\ Len(args) = 2 /\ args[1] # args[2]
    /\ fmt.next_arg = 2
    /\ LastOk
    /\ last.pre.next_arg = 1
    /\ LastArg = args[2]
    /\ LastArg.kind = "String" => LastEmitted = LastArg.b
    /\ result = [tag |-> "Ok"]

\* a conversion met parsing or the support gate with an argument left, and
\* the cursor stayed
C23_WitnessGate ==
    /\ pc = "done"
    /\ LastRan /\ ~LastOk
    /\ last.pre.next_arg = 1 /\ Len(args) = 2
    /\ fmt.next_arg = 1
    /\ result.tag \in {"Spec", "Unsupported"}

(***************************************************************************)
(* The checks a specification event goes through, read off the five fields *)
(* of the specification and the argument at the cursor.                    *)
(***************************************************************************)
KnownLengths ==
    {<<>>, <<"l">>, <<"l", "l">>, <<"j">>, <<"h">>, <<"h", "h">>, <<"L">>, <<"z">>, <<"Z">>,
     <<"t">>}
\* the precision field is absent, or a '.' with at least one byte after it
PrecisionGiven == last.spec.precision = <<>> \/ Len(last.spec.precision) >= 2
\* what becomes of a width or of the bytes after the '.' of a precision, read
\* as a number from the left: the digits before the first byte that is not
\* one are too many for usize, or such a byte is met, or neither
DigitPrefix(t) ==
    LET stops == {k \in 1..Len(t) : t[k] \notin DigitRun}
    IN  IF stops = {} THEN t ELSE SubSeq(t, 1, FirstOf(stops) - 1)
NumberFault(t) ==
    IF ~FitsUsize(DigitPrefix(t)) THEN "PosOverflow"
    ELSE IF DigitPrefix(t) # t THEN "InvalidDigit"
    ELSE "Fits"
FirstFailure ==
    LET sp == last.spec
        isInt == sp.specifier \in {<<"d">>, <<"i">>}
        dup == FlagFaults(sp.flags)
    IN  IF sp.specifier = <<>> THEN SpecError(MissingSpecifier)
        ELSE IF sp.specifier \notin {<<"d">>, <<"i">>, <<"s">>} THEN SpecError(UnknownSpecifier)
        ELSE IF dup # {} THEN SpecError(DuplicateFlag(sp.flags[FirstOf(dup)]))
        ELSE IF sp.length \notin KnownLengths THEN SpecError(UnknownLenModifier)
        ELSE IF sp.field_width # <<>> /\ NumberFault(sp.field_width) # "Fits"
        THEN SpecError(InvalidWidth(NumberFault(sp.field_width)))
        ELSE IF sp.precision # <<>> /\ NumberFault(Tail(sp.precision)) # "Fits"
        THEN SpecError(InvalidPrec(NumberFault(Tail(sp.precision))))
        ELSE IF HasFlag("'") \/ HasFlag("I") THEN Unsupported
        ELSE IF ~LastHasArg THEN NotEnoughArguments
        ELSE IF (LastArg.kind = "Int") # isInt THEN BadType
        ELSE IF isInt /\ sp.length \in {<<"L">>, <<"t">>} THEN Unsupported
        ELSE IF ~isInt /\ (HasFlag("#") \/ HasFlag("0")) THEN Invalid
        ELSE IF isInt /\ ~InSignedRange(LastArg.x, HalfRange(sp.length)) THEN NumOverflow
        ELSE NoError

(***************************************************************************)
(* C24.  For one specification event the checks run in a fixed order and *)
(* the first failing check alone determines the latched error: parse       *)
(* failure (specifier, then flags, length modifier, width, precision)      *)
(* gives Spec(e); then an apostrophe or I flag gives Unsupported; then no  *)
(* argument left gives NotEnoughArguments; then a value of the other kind  *)
(* gives BadType; then L or t on an integer gives Unsupported and # or 0   *)
(* on a string Invalid; then an integer out of range gives NumOverflow;    *)
(* only when none fails is anything written.                               *)
(***************************************************************************)
C24_CheckOrder ==
    (LastRan /\ PrecisionGiven) =>
        /\ last.post.error = FirstFailure
        /\ FirstFailure # NoError =>
              /\ last.post.calls = last.pre.calls
              /\ LastEmitted = <<>>
        /\ FirstFailure = NoError => last.post.calls > last.pre.calls

\* %'Ld with no argument: the support gate is reported, not the missing
\* argument and not the modifier
C24_Witness ==
    /\ pc = "done"
    /\ LastRan /\ PrecisionGiven
    /\ HasFlag("'") /\ last.spec.length = <<"L">>
    /\ ~LastHasArg
    /\ result = Unsupported

\* %0hhs on 200: BadType, whatever the flags, the modifier and the range
C24_WitnessBadType ==
    /\ pc = "done"
    /\ LastRan
    /\ last.spec.flags = <<"0">> /\ last.spec.length = <<"h", "h">>
    /\ last.spec.specifier = <<"s">>
    /\ LastHasArg /\ LastArg = Int200
    /\ result = BadType

\* %++<width too large>..qx: five parse checks fail, the specifier is reported;
\* with the specifier d the repeated flag is
C24_WitnessParse ==
    /\ pc = "done"
    /\ LastRan
    /\ last.spec.flags = <<"+", "+">> /\ last.spec.field_width = WidthTooLarge
    /\ last.spec.precision = <<".", ".">> /\ last.spec.length = <<"q">>
    /\ \/ last.spec.specifier = <<"x">> /\ result = SpecError(UnknownSpecifier)
       \/ last.spec.specifier = <<"d">> /\ result = SpecError(DuplicateFlag("+"))

(***************************************************************************)
(* C25.  The specifier field of every specification delivered by the     *)
(* tokenizer is empty or exactly one byte of the specifier alphabet: the   *)
(* specification ends right after its first specifier byte, and the bytes  *)
(* that follow, specifier letters included, belong to the literal run that *)
(* follows.                                                                *)
(***************************************************************************)
C25_SingleSpecifierByte ==
    \A k \in 1..Len(events) :
        events[k].kind = "Spec" =>
            LET sp == events[k].spec.specifier
            IN  /\ Len(sp) <= 1
                /\ \A j \in 1..Len(sp) : sp[j] \in SpecifierBytes

(***************************************************************************)
(* The template bytes an event stands for.                                 *)
(***************************************************************************)
EventBytes(ev) ==
    CASE ev.kind = "Bytes" -> ev.b
      [] ev.kind = "Percent" -> <<"%", "%">>
      [] ev.kind = "Spec" ->
            <<"%">> \o ev.spec.flags \o ev.spec.field_width \o ev.spec.precision
                    \o ev.spec.length \o ev.spec.specifier
RECURSIVE EventsBytes(_)
EventsBytes(evs) ==
    IF evs = <<>> THEN <<>> ELSE EventBytes(Head(evs)) \o EventsBytes(Tail(evs))

(***************************************************************************)
(* C26.  The events delivered by the tokenizer, taken in order, account  *)
(* for every template byte exactly once: the bytes of each literal event,  *)
(* %% for each escaped-percent event and % followed by the five fields for *)
(* each specification event, concatenated, give back the template, a '%'   *)
(* that is the last byte of the template included.                         *)
(***************************************************************************)
C26_EventsCoverTemplate ==
    pc = "done" => EventsBytes(events) = template

(***************************************************************************)
(* C27.  A conversion that fails with an error other than a sink error   *)
(* (Spec, Unsupported, NotEnoughArguments, BadType, Invalid, NumOverflow)  *)
(* calls the sink not once, so from then on the sink holds exactly the     *)
(* bytes rendered for the events that precede the failing specification;   *)
(* the pass returns that error, and the sink is the buffer the allocating  *)
(* entry point attaches to it.                                             *)
(***************************************************************************)
C27_FailureWritesNothing ==
    fmt.error.tag \in {"Spec", "Unsupported", "NotEnoughArguments", "BadType", "Invalid",
                       "NumOverflow"} =>
        /\ last.valid /\ ~had_error(last.pre)
        /\ last.post.error = fmt.error
        /\ last.post.calls = last.pre.calls
        /\ last.post.out = last.pre.out
        /\ last.post.chunks = last.pre.chunks
        /\ fmt.calls = last.pre.calls
        /\ fmt.out = last.pre.out
        /\ events[Len(events)] = SpecEvent(last.spec) =>
              fmt.out = Rendered(SubSeq(segs, 1, Len(segs) - 1), args)
        /\ pc = "done" => result = fmt.error

\* %s=%hhd on "loop" and 200: the pass returned NumOverflow and the sink holds
\* "loop="
C27_Witness ==
    /\ pc = "done"
    /\ result = NumOverflow
    /\ last.valid /\ last.pre.next_arg = 1
    /\ fmt.out = <<"l", "o", "o", "p", "=">>
    /\ fmt.next_arg = 2

\* a string conversion with the zero-pad flag, after a literal
C27_WitnessInvalid ==
    /\ pc = "done"
    /\ result = Invalid
    /\ fmt.out = <<"H", "e">>

(***************************************************************************)
(* C28.  Fields that a conversion kind does not use are accepted and     *)
(* ignored.  An integer conversion with a precision leaves the sink as the *)
(* same conversion without the precision leaves it: the integer is not     *)
(* zero-extended to the precision.  A string conversion with a recognized  *)
(* length modifier, L and t included, leaves the sink, and the error       *)
(* latch, as the same conversion without the modifier leaves them.         *)
(***************************************************************************)
C28_UnusedFieldsIgnored ==
    (LastRan /\ last.parsed.ok /\ LastHasArg) =>
        /\ (LastArg.kind = "Int" /\ last.parsed.val.conv_kind = "SignDecInt"
              /\ last.spec.precision # <<>>) =>
              LET plain == visit_specification(last.pre, [last.spec EXCEPT !.precision = <<>>])
              IN  /\ last.post.out = plain.out
                  /\ last.post.chunks = plain.chunks
                  /\ last.post.error = plain.error
                  /\ (LastOk /\ last.spec.flags = <<>> /\ last.spec.field_width = <<>>) =>
                        IsMinimalDecimal(LastEmitted, LastArg.x)
        /\ (LastArg.kind = "String" /\ last.parsed.val.conv_kind = "String"
              /\ last.spec.length # <<>>) =>
              LET plain == visit_specification(last.pre, [last.spec EXCEPT !.length = <<>>])
              IN  /\ last.post.out = plain.out
                  /\ last.post.chunks = plain.chunks
                  /\ last.post.error = plain.error

\* %.5d wrote a one-digit integer as one digit (two bytes for -7)
C28_Witness ==
    /\ pc = "done"
    /\ LastOk /\ LastArg.kind = "Int"
    /\ last.spec.precision = <<".", "5">>
    /\ last.spec.flags = <<>> /\ last.spec.field_width = <<>>
    /\ Len(LastEmitted) <= 2
    /\ result = [tag |-> "Ok"]

\* %Ls (or %ts) wrote the whole string
C28_WitnessLength ==
    /\ pc = "done"
    /\ LastOk /\ LastArg.kind = "String"
    /\ last.spec.length \in {<<"L">>, <<"t">>}
    /\ last.spec.precision = <<>>
    /\ LastEmitted = LastArg.b
====
